---- MODULE Spec2Model ----
(***************************************************************************)
(* Session Store (StorageManager) and Chat Session (GeminiManager) of the  *)
(* Gemini X workspace.  The blob backend is a map from object names to     *)
(* payloads; names and payloads are sequences of characters, so that key   *)
(* derivation, prefix listing and JSON encoding are computed, not assumed. *)
(***************************************************************************)
EXTENDS Integers, Sequences, FiniteSets, TLC

VARIABLES
    store,        \* the bucket: object name -> payload (bytes written by upload_from_string)
    active,       \* the writers (threads using the StorageManager) that exist
    pc,           \* pc[w]: position of writer w inside its current StorageManager call
    frame,        \* frame[w]: locals of the call in progress
    result,       \* result[w]: outcome of the call that returned last
    appends_ok,   \* appends_ok[c]: save_interaction calls on c that returned normally
    appended,     \* object name -> the {role, content} last passed to a completed upload of it
    model_name,   \* GeminiManager.model_name
    model,        \* GeminiManager.model: the identifier the bound GenerativeModel was built from
    cm,           \* outcome of the last change_model call, with the binding it started from
    request,      \* the last request submitted to the model backend
    program,      \* the entry point running: gemini_ui.py, gemini-x/main.py or main.py
    env,          \* which of BUCKET_NAME, PROJECT_ID, LOCATION the environment defines
    app,          \* the application: its phase and the outcome of its last handler
    gui,          \* GeminiXApp's capture attributes and the main thread's position
    threads       \* the capture threads started, in the order of their start

vars == <<store, active, pc, frame, result, appends_ok, appended,
          model_name, model, cm, request, program, env, app, gui, threads>>

storeVars == <<store, active, pc, frame, result, appends_ok, appended>>
chatVars == <<model_name, model, cm, request>>
appVars == <<program, env, app>>
callVars == <<active, pc, frame, result>>
capVars == <<gui, threads>>

(***************************************************************************)
(* Bounds                                                                  *)
(***************************************************************************)
\* completed appends in one behaviour
MaxAppends == 3

Writers == {1, 2}

\* conversation_id values: "a" and "a/b" (one is a path prefix of the other)
ConvIds == {<<"a">>, <<"a", "/", "b">>}

\* content strings: plain text, and text holding the characters JSON escapes
Contents == {<<"h">>, <<"\"", "\\", "h">>}

\* the (role, content) pairs appended: a prompt (role "user") and a response
\* (role "gemini"); a role or a word of content is one character cell
Turns == {[role |-> <<"user">>, content |-> <<"h">>],
          [role |-> <<"gemini">>, content |-> <<"\"", "\\", "h">>]}

SeqNos == 1..(MaxAppends + 1)

(***************************************************************************)
(* Strings                                                                 *)
(***************************************************************************)
Digit == <<"0", "1", "2", "3", "4", "5", "6", "7", "8", "9">>

\* str(n) of a non-negative int, as the f-string formats it
RECURSIVE str(_)
str(n) == IF n < 10 THEN <<Digit[n + 1]>>
          ELSE str(n \div 10) \o <<Digit[(n % 10) + 1]>>

\* code point of the first character of a cell (".json" is one cell, ordered by ".")
Ord(c) ==
    CASE c = "\"" -> 34
      [] c = ".json" -> 46
      [] c = "/" -> 47
      [] c \in {Digit[i] : i \in 1..10} -> 47 + (CHOOSE i \in 1..10 : Digit[i] = c)
      [] c = "\\" -> 92
      [] c = "a" -> 97
      [] c = "b" -> 98
      [] OTHER -> 104

StartsWith(s, p) == Len(s) >= Len(p) /\ SubSeq(s, 1, Len(p)) = p

\* lexicographic order of object names, the order list_blobs returns them in
RECURSIVE LexLess(_, _)
LexLess(s, t) ==
    IF s = <<>> THEN t # <<>>
    ELSE IF t = <<>> THEN FALSE
    ELSE IF Head(s) = Head(t) THEN LexLess(Tail(s), Tail(t))
    ELSE Ord(Head(s)) < Ord(Head(t))

RECURSIVE SortNames(_)
SortNames(S) ==
    IF S = {} THEN <<>>
    ELSE LET m == CHOOSE x \in S : \A y \in S : x = y \/ LexLess(x, y)
         IN <<m>> \o SortNames(S \ {m})

(***************************************************************************)
(* JSON payload: json.dumps({"role": role, "content": content}) and        *)
(* json.loads of it                                                        *)
(***************************************************************************)
\* variant of Escape: the backslash itself is not escaped
RECURSIVE Escape_quotes_only(_)
Escape_quotes_only(t) ==
    IF t = <<>> THEN <<>>
    ELSE (IF Head(t) = "\"" THEN <<"\\", Head(t)>> ELSE <<Head(t)>>)
         \o Escape_quotes_only(Tail(t))

RECURSIVE Escape(_)
Escape(t) ==
    IF t = <<>> THEN <<>>
    ELSE (IF Head(t) \in {"\"", "\\"} THEN <<"\\", Head(t)>> ELSE <<Head(t)>>)
         \o Escape(Tail(t))

JsonString(t) == <<"\"">> \o Escape(t) \o <<"\"">>

json_dumps(data) ==
    <<"{">> \o JsonString(<<"role">>) \o <<":">> \o JsonString(data.role)
            \o <<",">> \o JsonString(<<"content">>) \o <<":">> \o JsonString(data.content)
            \o <<"}">>

\* scan a JSON string whose opening quote is at i - 1; next is the index after
\* the closing quote
RECURSIVE ScanString(_, _, _)
ScanString(s, i, acc) ==
    IF s[i] = "\"" THEN [val |-> acc, next |-> i + 1]
    ELSE IF s[i] = "\\" THEN ScanString(s, i + 2, Append(acc, s[i + 1]))
    ELSE ScanString(s, i + 1, Append(acc, s[i]))

json_loads(s) ==
    LET k1 == ScanString(s, 3, <<>>)
        v1 == ScanString(s, k1.next + 2, <<>>)
        k2 == ScanString(s, v1.next + 2, <<>>)
        v2 == ScanString(s, k2.next + 2, <<>>)
        d == [k \in {k1.val, k2.val} |-> IF k = k2.val THEN v2.val ELSE v1.val]
    IN [role |-> d[<<"role">>], content |-> d[<<"content">>]]

(***************************************************************************)
(* Blob backend (google.cloud.storage) as the StorageManager uses it       *)
(***************************************************************************)
\* f"{conversation_id}/{n}.json"
blob_name(conversation_id, n) == conversation_id \o <<"/">> \o str(n) \o <<".json">>

\* f"{conversation_id}/"
prefix_of(conversation_id) == conversation_id \o <<"/">>

\* client.list_blobs(bucket_name, prefix=...)
list_blobs(st, prefix) == SortNames({k \in DOMAIN st : StartsWith(k, prefix)})

\* [blob.name for blob in blobs]
list_interactions(st, conversation_id) == list_blobs(st, prefix_of(conversation_id))

\* blob.upload_from_string(payload): creates or replaces the object
upload_from_string(st, name, payload) ==
    [k \in DOMAIN st \cup {name} |-> IF k = name THEN payload ELSE st[k]]

\* blob.delete() of an existing object
delete_blob(st, name) == [k \in DOMAIN st \ {name} |-> st[k]]

\* blob.exists()
blob_exists(st, name) == name \in DOMAIN st

\* the object names under the conversation's prefix
KeysUnder(st, conversation_id) ==
    {k \in DOMAIN st : StartsWith(k, prefix_of(conversation_id))}

\* the object names of the form {conversation_id}/{n}.json: nothing but the
\* number and the suffix follows the prefix
OwnKeys(st, conversation_id) ==
    {k \in KeysUnder(st, conversation_id) :
        \A i \in (Len(conversation_id) + 2)..Len(k) : k[i] # "/"}

(***************************************************************************)
(* StorageManager calls.  Each backend request is one step; any request    *)
(* may fail (ok = FALSE: the backend raises).                              *)
(***************************************************************************)
NoTurn == [role |-> <<>>, content |-> <<>>]

NoFrame == [cid |-> <<>>, turn |-> NoTurn, n |-> 0, blobs |-> <<>>, i |-> 0, prelen |-> 0]

\* kind: "void" (returned nothing), "None", "int", "dict", "list", "raise"
\* fault: a backend request of the call failed
\* prelen: len(list_interactions(cid)) when the call made its first request
NoResult == [op |-> "none", cid |-> <<>>, n |-> 0, turn |-> NoTurn, kind |-> "none",
             int |-> 0, dict |-> NoTurn, list |-> <<>>, fault |-> FALSE, prelen |-> 0]

EmptyStore == [k \in {} |-> <<>>]

TotalAppends == appends_ok[<<"a">>] + appends_ok[<<"a", "/", "b">>]

Return(w, r) ==
    /\ pc' = [pc EXCEPT ![w] = "idle"]
    /\ frame' = [frame EXCEPT ![w] = NoFrame]
    /\ result' = [result EXCEPT ![w] = r]

\* save_interaction, line 13: the list request and the computed blob name
save_interaction_list(w, conversation_id, role, content) ==
    /\ pc[w] = "idle"
    /\ TotalAppends < MaxAppends
    /\ \E ok \in BOOLEAN :
         LET names == list_interactions(store, conversation_id)
             turn == [role |-> role, content |-> content]
         IN IF ok
            THEN /\ pc' = [pc EXCEPT ![w] = "save_put"]
                 /\ frame' = [frame EXCEPT ![w] =
                        [NoFrame EXCEPT !.cid = conversation_id, !.turn = turn,
                                        !.n = Len(names) + 1, !.prelen = Len(names)]]
                 /\ result' = [result EXCEPT ![w] = NoResult]
            ELSE Return(w, [NoResult EXCEPT !.op = "save", !.cid = conversation_id,
                                            !.turn = turn, !.kind = "raise",
                                            !.fault = TRUE])
    /\ UNCHANGED <<store, active, appends_ok, appended, chatVars>>

\* variant of save_interaction_put: the sequence number is taken from a second
\* list request made together with the upload
save_interaction_put_relist(w) ==
    /\ pc[w] = "save_put"
    /\ \E ok \in BOOLEAN :
         LET f == frame[w]
             n == Len(list_interactions(store, f.cid)) + 1
             name == blob_name(f.cid, n)
             r == [NoResult EXCEPT !.op = "save", !.cid = f.cid, !.n = n,
                                   !.turn = f.turn, !.prelen = f.prelen]
         IN IF ok
            THEN /\ store' = upload_from_string(store, name, json_dumps(f.turn))
                 /\ appends_ok' = [appends_ok EXCEPT ![f.cid] = @ + 1]
                 /\ appended' = upload_from_string(appended, name, f.turn)
                 /\ Return(w, [r EXCEPT !.kind = "void"])
            ELSE /\ UNCHANGED <<store, appends_ok, appended>>
                 /\ Return(w, [r EXCEPT !.kind = "raise", !.fault = TRUE])
    /\ UNCHANGED <<active, chatVars>>

\* variant of save_interaction_put: a rejected upload is tried a second time
save_interaction_put_retry(w) ==
    /\ pc[w] = "save_put"
    /\ \E ok \in BOOLEAN, again \in BOOLEAN :
         LET f == frame[w]
             name == blob_name(f.cid, f.n)
             r == [NoResult EXCEPT !.op = "save", !.cid = f.cid, !.n = f.n,
                                   !.turn = f.turn, !.prelen = f.prelen,
                                   !.fault = ~ok]
         IN IF ok \/ again
            THEN /\ store' = upload_from_string(store, name, json_dumps(f.turn))
                 /\ appends_ok' = [appends_ok EXCEPT ![f.cid] = @ + 1]
                 /\ appended' = upload_from_string(appended, name, f.turn)
                 /\ Return(w, [r EXCEPT !.kind = "void"])
            ELSE /\ UNCHANGED <<store, appends_ok, appended>>
                 /\ Return(w, [r EXCEPT !.kind = "raise"])
    /\ UNCHANGED <<active, chatVars>>

\* save_interaction, lines 14-16: the upload
save_interaction_put(w) ==
    /\ pc[w] = "save_put"
    /\ \E ok \in BOOLEAN :
         LET f == frame[w]
             name == blob_name(f.cid, f.n)
             r == [NoResult EXCEPT !.op = "save", !.cid = f.cid, !.n = f.n,
                                   !.turn = f.turn, !.prelen = f.prelen]
         IN IF ok
            THEN /\ store' = upload_from_string(store, name, json_dumps(f.turn))
                 /\ appends_ok' = [appends_ok EXCEPT ![f.cid] = @ + 1]
                 /\ appended' = upload_from_string(appended, name, f.turn)
                 /\ Return(w, [r EXCEPT !.kind = "void"])
            ELSE /\ UNCHANGED <<store, appends_ok, appended>>
                 /\ Return(w, [r EXCEPT !.kind = "raise", !.fault = TRUE])
    /\ UNCHANGED <<active, chatVars>>

\* list_interactions as a call of its own
list_interactions_call(w, conversation_id) ==
    /\ pc[w] = "idle"
    /\ \E ok \in BOOLEAN :
         LET names == list_interactions(store, conversation_id)
             r == [NoResult EXCEPT !.op = "list", !.cid = conversation_id,
                                   !.prelen = Len(names)]
         IN IF ok
            THEN Return(w, [r EXCEPT !.kind = "list", !.list = names])
            ELSE Return(w, [r EXCEPT !.kind = "raise", !.fault = TRUE])
    /\ UNCHANGED <<store, active, appends_ok, appended, chatVars>>

\* variant of get_interaction_exists: the download is attempted whatever
\* blob.exists() answered
get_interaction_exists_unchecked(w, conversation_id, interaction_id) ==
    /\ pc[w] = "idle"
    /\ \E ok \in BOOLEAN :
         LET r == [NoResult EXCEPT !.op = "get", !.cid = conversation_id,
                                   !.n = interaction_id,
                                   !.prelen = Len(list_interactions(store, conversation_id))]
         IN IF ~ok
            THEN Return(w, [r EXCEPT !.kind = "raise", !.fault = TRUE])
            ELSE /\ pc' = [pc EXCEPT ![w] = "get_download"]
                 /\ frame' = [frame EXCEPT ![w] =
                        [NoFrame EXCEPT !.cid = conversation_id, !.n = interaction_id,
                                        !.prelen = r.prelen]]
                 /\ result' = [result EXCEPT ![w] = NoResult]
    /\ UNCHANGED <<store, active, appends_ok, appended, chatVars>>

\* get_interaction, lines 25-27 and 29-30: blob.exists()
get_interaction_exists(w, conversation_id, interaction_id) ==
    /\ pc[w] = "idle"
    /\ \E ok \in BOOLEAN :
         LET name == blob_name(conversation_id, interaction_id)
             r == [NoResult EXCEPT !.op = "get", !.cid = conversation_id,
                                   !.n = interaction_id,
                                   !.prelen = Len(list_interactions(store, conversation_id))]
         IN IF ~ok
            THEN Return(w, [r EXCEPT !.kind = "raise", !.fault = TRUE])
            ELSE IF blob_exists(store, name)
            THEN /\ pc' = [pc EXCEPT ![w] = "get_download"]
                 /\ frame' = [frame EXCEPT ![w] =
                        [NoFrame EXCEPT !.cid = conversation_id, !.n = interaction_id,
                                        !.prelen = r.prelen]]
                 /\ result' = [result EXCEPT ![w] = NoResult]
            ELSE Return(w, [r EXCEPT !.kind = "None"])
    /\ UNCHANGED <<store, active, appends_ok, appended, chatVars>>

\* get_interaction, line 28: blob.download_as_string() raises NotFound when the
\* object is gone
get_interaction_download(w) ==
    /\ pc[w] = "get_download"
    /\ \E ok \in BOOLEAN :
         LET f == frame[w]
             name == blob_name(f.cid, f.n)
             r == [NoResult EXCEPT !.op = "get", !.cid = f.cid, !.n = f.n,
                                   !.prelen = f.prelen]
         IN IF ok /\ blob_exists(store, name)
            THEN Return(w, [r EXCEPT !.kind = "dict", !.dict = json_loads(store[name])])
            ELSE Return(w, [r EXCEPT !.kind = "raise", !.fault = ~ok])
    /\ UNCHANGED <<store, active, appends_ok, appended, chatVars>>

\* variant of clear_storage_list: a failed list request is reported as 0
clear_storage_list_zero(w, conversation_id) ==
    /\ pc[w] = "idle"
    /\ \E ok \in BOOLEAN :
         LET blobs == list_blobs(store, prefix_of(conversation_id))
             r == [NoResult EXCEPT !.op = "clear", !.cid = conversation_id,
                                   !.prelen = Cardinality(KeysUnder(store, conversation_id))]
         IN IF ok
            THEN /\ pc' = [pc EXCEPT ![w] = "clear_delete"]
                 /\ frame' = [frame EXCEPT ![w] =
                        [NoFrame EXCEPT !.cid = conversation_id, !.blobs = blobs,
                                        !.i = 1, !.prelen = r.prelen]]
                 /\ result' = [result EXCEPT ![w] = NoResult]
            ELSE Return(w, [r EXCEPT !.kind = "int", !.int = 0, !.fault = TRUE])
    /\ UNCHANGED <<store, active, appends_ok, appended, chatVars>>

\* clear_storage, lines 43-46: the list request
clear_storage_list(w, conversation_id) ==
    /\ pc[w] = "idle"
    /\ \E ok \in BOOLEAN :
         LET blobs == list_blobs(store, prefix_of(conversation_id))
             r == [NoResult EXCEPT !.op = "clear", !.cid = conversation_id,
                                   !.prelen = Cardinality(KeysUnder(store, conversation_id))]
         IN IF ok
            THEN /\ pc' = [pc EXCEPT ![w] = "clear_delete"]
                 /\ frame' = [frame EXCEPT ![w] =
                        [NoFrame EXCEPT !.cid = conversation_id, !.blobs = blobs,
                                        !.i = 1, !.prelen = r.prelen]]
                 /\ result' = [result EXCEPT ![w] = NoResult]
            ELSE Return(w, [r EXCEPT !.kind = "int", !.int = -1, !.fault = TRUE])
    /\ UNCHANGED <<store, active, appends_ok, appended, chatVars>>

\* variant of clear_storage_delete: a failed delete is skipped and the loop goes on
clear_storage_delete_swallow(w) ==
    /\ pc[w] = "clear_delete"
    /\ frame[w].i <= Len(frame[w].blobs)
    /\ \E ok \in BOOLEAN :
         LET f == frame[w]
             name == f.blobs[f.i]
         IN /\ IF ok /\ blob_exists(store, name)
               THEN /\ store' = delete_blob(store, name)
                    /\ appended' = delete_blob(appended, name)
               ELSE UNCHANGED <<store, appended>>
            /\ frame' = [frame EXCEPT ![w].i = @ + 1]
            /\ UNCHANGED <<pc, result>>
    /\ UNCHANGED <<active, appends_ok, chatVars>>

\* clear_storage, lines 49-50 and 53-55: one blob.delete() of the loop; a failed
\* request, or an object that is already gone, raises and the handler returns -1
clear_storage_delete(w) ==
    /\ pc[w] = "clear_delete"
    /\ frame[w].i <= Len(frame[w].blobs)
    /\ \E ok \in BOOLEAN :
         LET f == frame[w]
             name == f.blobs[f.i]
         IN IF ok /\ blob_exists(store, name)
            THEN /\ store' = delete_blob(store, name)
                 /\ appended' = delete_blob(appended, name)
                 /\ frame' = [frame EXCEPT ![w].i = @ + 1]
                 /\ UNCHANGED <<pc, result>>
            ELSE /\ UNCHANGED <<store, appended>>
                 /\ Return(w, [NoResult EXCEPT !.op = "clear", !.cid = f.cid,
                                               !.prelen = f.prelen, !.kind = "int",
                                               !.int = -1, !.fault = TRUE])
    /\ UNCHANGED <<active, appends_ok, chatVars>>

\* variant of clear_storage_return: the loop index is returned, not len(blobs)
clear_storage_return_index(w) ==
    /\ pc[w] = "clear_delete"
    /\ frame[w].i > Len(frame[w].blobs)
    /\ Return(w, [NoResult EXCEPT !.op = "clear", !.cid = frame[w].cid,
                                  !.prelen = frame[w].prelen, !.kind = "int",
                                  !.int = frame[w].i])
    /\ UNCHANGED <<store, active, appends_ok, appended, chatVars>>

\* clear_storage, line 52: return len(blobs)
clear_storage_return(w) ==
    /\ pc[w] = "clear_delete"
    /\ frame[w].i > Len(frame[w].blobs)
    /\ Return(w, [NoResult EXCEPT !.op = "clear", !.cid = frame[w].cid,
                                  !.prelen = frame[w].prelen, !.kind = "int",
                                  !.int = Len(frame[w].blobs)])
    /\ UNCHANGED <<store, active, appends_ok, appended, chatVars>>

(***************************************************************************)
(* GeminiManager                                                           *)
(***************************************************************************)
DefaultModel == "gemini-1.5-pro-preview-0409"

\* the identifiers the model dropdown offers
ModelOptions == {"gemini-1.5-pro-preview-0409", "gemini-1.5-flash-preview-0514",
                 "gemini-1.0-pro-001", "gemini-1.0-pro-vision-001"}

\* change_model takes any string; GenerativeModel(name) rejects this one
InvalidModels == {"invalid/model"}

ModelIds == ModelOptions \cup InvalidModels

Prompts == Contents

Responses == {<<"h">>}

\* image_data: JPEG bytes, or the empty payload
Images == {<<"jpeg">>, <<>>}

NoCm == [called |-> FALSE, arg |-> "", ret |-> FALSE, prev_name |-> "", prev_model |-> ""]

\* since_cm: the request was submitted after the last change_model call
\* history: what the chat held when the message was sent
\* sent: send_message calls made; failed: the backend rejected the last of them
\* raised: the call ended in an exception; text: the value it returned
NoRequest == [op |-> "none", model |-> "", parts |-> <<>>, raised |-> FALSE, text |-> <<>>,
              since_cm |-> FALSE, history |-> <<>>, sent |-> 0, failed |-> FALSE]

\* self.model.start_chat(): a new ChatSession, its history empty
start_chat(m) == [model |-> m, history |-> <<>>]

\* chat.send_message(parts) and what the caller makes of it: response.text, or
\* the exception passed on
Exchange(op, chat, parts, ok, text) ==
    [op |-> op, model |-> chat.model, parts |-> parts, raised |-> ~ok,
     text |-> IF ok THEN text ELSE <<>>, since_cm |-> cm.called,
     history |-> chat.history, sent |-> 1, failed |-> ~ok]

\* Part.from_data(data=image_data, mime_type="image/jpeg")
image_part(image_data) == [data |-> image_data, mime_type |-> "image/jpeg"]

\* variant of change_model: the handle attribute is assigned before the
\* identifier is validated
change_model_rebind(new_name) ==
    /\ model_name' = new_name
    /\ \E ok \in (IF new_name \in InvalidModels THEN {FALSE} ELSE BOOLEAN) :
         /\ model' = new_name
         /\ cm' = [called |-> TRUE, arg |-> new_name, ret |-> ok,
                   prev_name |-> model_name, prev_model |-> model]
    /\ request' = [request EXCEPT !.since_cm = FALSE]
    /\ UNCHANGED storeVars

\* change_model, lines 20-26: the name is recorded, then the handle is built;
\* GenerativeModel raises for a malformed identifier and may raise for any
change_model(new_name) ==
    /\ model_name' = new_name
    /\ \E ok \in (IF new_name \in InvalidModels THEN {FALSE} ELSE BOOLEAN) :
         /\ model' = IF ok THEN new_name ELSE model
         /\ cm' = [called |-> TRUE, arg |-> new_name, ret |-> ok,
                   prev_name |-> model_name, prev_model |-> model]
    /\ request' = [request EXCEPT !.since_cm = FALSE]
    /\ UNCHANGED storeVars

\* variant of send_prompt: a failed exchange falls back to the default model
send_prompt_fallback(prompt) ==
    /\ \E ok \in BOOLEAN : \E text \in Responses :
         /\ request' = Exchange("send_prompt", start_chat(model), <<prompt>>, ok, text)
         /\ model' = IF ok THEN model ELSE DefaultModel
    /\ UNCHANGED <<model_name, cm, storeVars>>

\* send_prompt, lines 37-39: a fresh chat on the bound model, one send_message
send_prompt(prompt) ==
    /\ \E ok \in BOOLEAN : \E text \in Responses :
         request' = Exchange("send_prompt", start_chat(model), <<prompt>>, ok, text)
    /\ UNCHANGED <<model_name, model, cm, storeVars>>

\* variant of send_prompt_with_image: the except clause returns the error text
send_prompt_with_image_text(prompt, image_data) ==
    /\ \E ok \in BOOLEAN : \E text \in Responses :
         request' = [Exchange("send_prompt_with_image", start_chat(model),
                              <<prompt, image_part(image_data)>>, ok, text)
                        EXCEPT !.raised = FALSE,
                               !.text = IF ok THEN text ELSE <<"Error">>]
    /\ UNCHANGED <<model_name, model, cm, storeVars>>

\* send_prompt_with_image, lines 51-64: the text and one image/jpeg part; the
\* except clause prints and raises again
send_prompt_with_image(prompt, image_data) ==
    /\ \E ok \in BOOLEAN : \E text \in Responses :
         request' = Exchange("send_prompt_with_image", start_chat(model),
                             <<prompt, image_part(image_data)>>, ok, text)
    /\ UNCHANGED <<model_name, model, cm, storeVars>>

(***************************************************************************)
(* The applications around the two components: the window (gemini_ui.py),  *)
(* the console loop (gemini-x/main.py) and the one-shot script (main.py).  *)
(* A handler runs to its end on the one thread that uses the components,   *)
(* so each is one step; fault picks the backend request that fails.        *)
(***************************************************************************)
Programs == {"ui", "cli", "script"}

\* TRUE: os.getenv returns a non-empty value
Envs == [BUCKET_NAME : BOOLEAN, PROJECT_ID : BOOLEAN, LOCATION : BOOLEAN]
FullEnv == [BUCKET_NAME |-> TRUE, PROJECT_ID |-> TRUE, LOCATION |-> TRUE]

\* conversation_id = "conversation_1": the one-cell id of ConvIds
conversation_1 == <<"a">>

\* the roles the applications pass to save_interaction
role_user == <<"user">>

\* variant of role_gemini: the name add_to_conversation displays
role_Gemini == <<"Gemini">>

role_gemini == <<"gemini">>

\* initial_prompt of main.py, one cell
initial_prompt == <<"You are my project leader. Let's start a new project.">>

\* what send_to_gemini is given: typed text, text with a captured frame, or
\* an empty input area
UserInputs == {[text |-> <<"h">>, image |-> <<>>],
               [text |-> <<"h">>, image |-> <<"jpeg">>],
               [text |-> <<>>, image |-> <<>>]}

\* phase: "start", "running", "config_error" (a required value is missing),
\*        "init_error" (a constructor raised), "crashed" (an exception left
\*        main), "exited"
\* op, status: the last handler and how it ended
\* asked: the handler submitted a request to the model
\* invoked: an operation of a component has been called since startup
NoApp == [phase |-> "start", op |-> "none", status |-> "none", asked |-> FALSE,
          invoked |-> FALSE]

\* save_interaction, lines 11-16, when both requests succeed
save_interaction(st, conversation_id, role, content) ==
    upload_from_string(st,
        blob_name(conversation_id, Len(list_interactions(st, conversation_id)) + 1),
        json_dumps([role |-> role, content |-> content]))

\* the same call on the record of what was passed to the uploads
save_interaction_turn(st, ap, conversation_id, role, content) ==
    upload_from_string(ap,
        blob_name(conversation_id, Len(list_interactions(st, conversation_id)) + 1),
        [role |-> role, content |-> content])

\* the two save_interaction calls that follow a response; fault: 0 none,
\* 1 and 2 the list and the upload of the first, 3 and 4 those of the second
save_exchange(st, ap, user_input, gemini_response, fault) ==
    LET c == conversation_1
        s1 == save_interaction(st, c, role_user, user_input)
        a1 == save_interaction_turn(st, ap, c, role_user, user_input)
        s2 == save_interaction(s1, c, role_gemini, gemini_response)
        a2 == save_interaction_turn(s1, a1, c, role_gemini, gemini_response)
        uploads == IF fault \in {1, 2} THEN 0 ELSE IF fault \in {3, 4} THEN 1 ELSE 2
    IN [store |-> IF uploads = 0 THEN st ELSE IF uploads = 1 THEN s1 ELSE s2,
        appended |-> IF uploads = 0 THEN ap ELSE IF uploads = 1 THEN a1 ELSE a2,
        uploads |-> uploads,
        raised |-> fault # 0]

\* the delete loop of clear_storage, lines 49-50, over blobs[i..], stopping
\* at the delete numbered fault
RECURSIVE delete_from(_, _, _, _)
delete_from(st, blobs, i, fault) ==
    IF i > Len(blobs) \/ i = fault THEN st
    ELSE delete_from(delete_blob(st, blobs[i]), blobs, i + 1, fault)

\* clear_storage, lines 41-55; fault: 0 the list request, i the i-th delete,
\* Len(blobs) + 1 none
clear_storage(st, conversation_id, fault) ==
    LET blobs == list_blobs(st, prefix_of(conversation_id))
    IN IF fault = 0 THEN [store |-> st, ret |-> -1]
       ELSE [store |-> delete_from(st, blobs, 1, fault),
             ret |-> IF fault <= Len(blobs) THEN -1 ELSE Len(blobs)]

\* the Turns stored for the conversation, by ascending sequence number
StoredTurns(st, conversation_id) ==
    LET F[n \in 0..TotalAppends] ==
            IF n = 0 THEN <<>>
            ELSE IF blob_exists(st, blob_name(conversation_id, n))
                 THEN Append(F[n - 1], json_loads(st[blob_name(conversation_id, n)]))
                 ELSE F[n - 1]
    IN F[TotalAppends]

\* f"{interaction['role']}: {interaction['content']}\n"
history_line(interaction) ==
    interaction.role \o <<": ">> \o interaction.content \o <<"\n">>

\* gemini-x/main.py lines 23-27: get_interaction for 1..len(interactions),
\* the ones found joined into chat_history
chat_history(st, conversation_id) ==
    LET count == Len(list_interactions(st, conversation_id))
        F[n \in 0..count] ==
            IF n = 0 THEN <<>>
            ELSE IF blob_exists(st, blob_name(conversation_id, n))
                 THEN F[n - 1] \o history_line(json_loads(st[blob_name(conversation_id, n)]))
                 ELSE F[n - 1]
    IN F[count]

\* gemini-x/main.py lines 35-38: the triple-quoted f-string
full_prompt(history, user_prompt) ==
    <<"\n", "        ">> \o history \o <<"\n", "        ">> \o user_prompt
        \o <<"\n", "        ">>

\* a handler or loop pass may start while the appends made stay bounded
MayAppend == TotalAppends < MaxAppends

\* the store fields after the two saves, and what the handler records of them
Saved(r) ==
    /\ store' = r.store
    /\ appended' = r.appended
    /\ appends_ok' = [appends_ok EXCEPT ![conversation_1] = @ + r.uploads]

\* GeminiXApp.__init__, lines 74-118: the environment checks, the two
\* constructors, and the except clauses that show the error and quit
ui_init ==
    /\ program = "ui" /\ app.phase = "start"
    /\ \E ok \in BOOLEAN :
         app' = [app EXCEPT !.phase =
                    IF ~env.BUCKET_NAME \/ ~env.PROJECT_ID \/ ~env.LOCATION
                    THEN "config_error"
                    ELSE IF ok THEN "running" ELSE "init_error"]
    /\ UNCHANGED <<storeVars, chatVars, program, env>>

\* send_to_gemini, lines 315-374
send_to_gemini(user_input, image_data) ==
    /\ program = "ui" /\ app.phase = "running" /\ MayAppend
    /\ IF user_input = <<>> /\ image_data = <<>>
       THEN /\ app' = [NoApp EXCEPT !.phase = "running", !.op = "send_to_gemini",
                                    !.status = "empty", !.invoked = app.invoked]
            /\ UNCHANGED <<store, appended, appends_ok, request>>
       ELSE \E ok \in BOOLEAN, text \in Responses, fault \in 0..4 :
              LET r == save_exchange(store, appended, user_input, text,
                                     IF ok THEN fault ELSE 1)
                  a == [NoApp EXCEPT !.phase = "running", !.op = "send_to_gemini",
                                     !.asked = TRUE, !.invoked = TRUE]
              IN /\ request' =
                        IF image_data # <<>>
                        THEN Exchange("send_prompt_with_image", start_chat(model),
                                      <<user_input, image_part(image_data)>>, ok, text)
                        ELSE Exchange("send_prompt", start_chat(model),
                                      <<user_input>>, ok, text)
                 /\ IF ok
                    THEN /\ Saved(r)
                         /\ app' = [a EXCEPT !.status = IF r.raised THEN "store_error" ELSE "ok"]
                    ELSE /\ (fault = 0)
                         /\ UNCHANGED <<store, appended, appends_ok>>
                         /\ app' = [a EXCEPT !.status = "model_error"]
    /\ UNCHANGED <<callVars, model_name, model, cm, program, env>>

\* the store fields after clear_storage calls that left store st
Cleared(st) ==
    /\ store' = st
    /\ appended' = [k \in DOMAIN st |-> appended[k]]
    /\ UNCHANGED appends_ok

\* clear_conversation, lines 376-391, with clear_cloud_storage, lines 393-411
clear_conversation ==
    /\ program = "ui" /\ app.phase = "running"
    /\ \E fault \in 0..(Len(list_interactions(store, conversation_1)) + 1) :
         LET r == clear_storage(store, conversation_1, fault)
         IN /\ Cleared(r.store)
            /\ app' = [NoApp EXCEPT !.phase = "running", !.op = "clear_conversation",
                          !.status = IF r.ret >= 0 THEN "ok" ELSE "clear_failed",
                          !.invoked = TRUE]
    /\ UNCHANGED <<callVars, chatVars, program, env>>

\* new_conversation, lines 415-424: clear_conversation, then
\* clear_cloud_storage once more
new_conversation ==
    /\ program = "ui" /\ app.phase = "running"
    /\ \E f1 \in 0..(Len(list_interactions(store, conversation_1)) + 1) :
         LET r1 == clear_storage(store, conversation_1, f1)
         IN \E f2 \in 0..(Len(list_interactions(r1.store, conversation_1)) + 1) :
              LET r2 == clear_storage(r1.store, conversation_1, f2)
              IN /\ Cleared(r2.store)
                 /\ app' = [NoApp EXCEPT !.phase = "running", !.op = "new_conversation",
                               !.status = IF r2.ret >= 0 THEN "ok" ELSE "clear_failed",
                               !.invoked = TRUE]
    /\ UNCHANGED <<callVars, chatVars, program, env>>

\* exit_application, lines 426-428: the main loop ends and the process with
\* it, its GeminiManager included
exit_application ==
    /\ program = "ui" /\ app.phase = "running"
    /\ app' = [NoApp EXCEPT !.phase = "exited"]
    /\ model_name' = DefaultModel /\ model' = DefaultModel
    /\ cm' = NoCm /\ request' = NoRequest
    /\ UNCHANGED <<storeVars, program, env>>

\* gemini-x/main.py lines 12-18: the constructors, no check of the
\* environment
cli_start ==
    /\ program = "cli" /\ app.phase = "start"
    /\ \E ok \in BOOLEAN : app' = [app EXCEPT !.phase = IF ok THEN "running" ELSE "init_error"]
    /\ UNCHANGED <<storeVars, chatVars, program, env>>

\* gemini-x/main.py lines 20-46, one pass of the loop; fault: 0 none, 1 the
\* list request, 2 a get_interaction, 3 the model, 4..7 the two saves.  No
\* try statement surrounds the calls: an exception ends main.
cli_loop(user_prompt) ==
    /\ program = "cli" /\ app.phase = "running" /\ MayAppend
    /\ \E fault \in (IF env.BUCKET_NAME THEN 0..7 ELSE {1}), text \in Responses :
         LET interactions == list_interactions(store, conversation_1)
             prompt == full_prompt(chat_history(store, conversation_1), user_prompt)
             r == save_exchange(store, appended, user_prompt, text,
                                IF fault >= 4 THEN fault - 3 ELSE 0)
             a == [NoApp EXCEPT !.phase = "running", !.op = "main",
                                !.invoked = TRUE]
             b == [a EXCEPT !.asked = TRUE]
         IN /\ (fault = 2) => (Len(interactions) > 0)
            /\ IF fault \in {1, 2}
               THEN /\ app' = [a EXCEPT !.phase = "crashed", !.status = "store_error"]
                    /\ UNCHANGED <<store, appended, appends_ok, request>>
               ELSE IF user_prompt = <<"exit">>
               THEN /\ (fault = 0)
                    /\ app' = [a EXCEPT !.phase = "exited", !.status = "ok"]
                    /\ UNCHANGED <<store, appended, appends_ok, request>>
               ELSE /\ request' = Exchange("send_prompt", start_chat(model), <<prompt>>,
                                           fault # 3, text)
                    /\ IF fault = 3
                       THEN /\ app' = [b EXCEPT !.phase = "crashed",
                                                !.status = "model_error"]
                            /\ UNCHANGED <<store, appended, appends_ok>>
                       ELSE /\ Saved(r)
                            /\ app' = [b EXCEPT
                                  !.phase = IF r.raised THEN "crashed" ELSE "running",
                                  !.status = IF r.raised THEN "store_error" ELSE "ok"]
    /\ UNCHANGED <<callVars, model_name, model, cm, program, env>>

\* main.py lines 8-26: the constructors, one send_prompt, the two saves;
\* fault: 0 none, 1 a constructor, 2 the model, 3..6 the two saves
script_main ==
    /\ program = "script" /\ app.phase = "start" /\ MayAppend
    /\ \E fault \in (IF env.BUCKET_NAME THEN 0..6 ELSE 1..3), text \in Responses :
         LET r == save_exchange(store, appended, initial_prompt, text,
                                IF fault >= 3 THEN fault - 2 ELSE 0)
             a == [NoApp EXCEPT !.op = "main", !.asked = TRUE, !.invoked = TRUE]
         IN IF fault = 1
            THEN /\ app' = [app EXCEPT !.phase = "init_error"]
                 /\ UNCHANGED <<store, appended, appends_ok, request>>
            ELSE /\ request' = Exchange("send_prompt", start_chat(model),
                                        <<initial_prompt>>, fault # 2, text)
                 /\ IF fault = 2
                    THEN /\ app' = [a EXCEPT !.phase = "crashed", !.status = "model_error"]
                         /\ UNCHANGED <<store, appended, appends_ok>>
                    ELSE /\ Saved(r)
                         /\ app' = [a EXCEPT
                               !.phase = IF r.raised THEN "crashed" ELSE "exited",
                               !.status = IF r.raised THEN "store_error" ELSE "ok"]
    /\ UNCHANGED <<callVars, model_name, model, cm, program, env>>

\* a program that has ended is started again, or another one is: the bucket
\* keeps its objects, GeminiManager.__init__ (lines 6-9) binds the default model
launch(p) ==
    /\ app.phase \in {"exited", "crashed", "init_error", "config_error"}
    /\ program' = p
    /\ app' = NoApp
    /\ model_name' = DefaultModel /\ model' = DefaultModel
    /\ cm' = NoCm /\ request' = NoRequest
    /\ UNCHANGED <<storeVars, env>>

(***************************************************************************)
(* Capture devices of the window application: the webcam feed, the screen  *)
(* capture and the speech listener.  Handlers run on the main thread; a    *)
(* capture thread takes one step per loop position; thread.join(1.0) lets  *)
(* its caller go on whether or not the thread has ended.                   *)
(***************************************************************************)
\* threads started over a run
MaxStarts == 2

\* _initialize_component_states, lines 120-140.
\* pc: the main thread's position.  closing: the step of on_closing that
\* comes next, 0 outside on_closing.  webcam, sct: 0 for None, -1 for a
\* handle that is not open, otherwise the open handle.  microphone: 0 for
\* None, otherwise the sr.Microphone object.
NoGui == [pc |-> "mainloop", closing |-> 0,
          webcam_running |-> FALSE, webcam |-> 0,
          webcam_window |-> FALSE, webcam_thread |-> 0,
          screenshare_running |-> FALSE, sct |-> 0, screenshare_window |-> FALSE,
          listening |-> FALSE, listening_thread |-> 0,
          microphone |-> 0, microphone_window |-> FALSE]

\* threading.Thread(target=...), started
\* cancelled: the thread's flag was set to False while the thread was alive
\* mic: the microphone the listener has entered
NewThread(target, first) ==
    [target |-> target, pc |-> first, ret |-> FALSE, cancelled |-> FALSE, mic |-> 0]

Alive(t) == t \in 1..Len(threads) /\ threads[t].pc \notin {"done", "failed"}

\* the main thread is in the event loop and free to run a handler the user
\* asks for
UserMay == gui.pc = "mainloop" /\ gui.closing = 0

\* the flag of the target's loop is set to False: every live thread of that
\* target has been told to stop
Cancel(ths, target) ==
    [t \in 1..Len(ths) |->
        IF ths[t].target = target /\ ths[t].pc \notin {"done", "failed"}
        THEN [ths[t] EXCEPT !.cancelled = TRUE] ELSE ths[t]]

\* webcam_functionality, lines 458-517
webcam_functionality ==
    /\ UserMay /\ ~gui.webcam_running
    /\ Len(threads) < MaxStarts
    /\ \E ok \in BOOLEAN :
         IF ok
         THEN /\ gui' = [gui EXCEPT !.webcam = Len(threads) + 1, !.webcam_window = TRUE,
                                    !.webcam_running = TRUE,
                                    !.webcam_thread = Len(threads) + 1]
              /\ threads' = Append(threads, NewThread("show_webcam_feed", "while"))
         ELSE /\ gui' = [gui EXCEPT !.webcam = -1]
              /\ UNCHANGED threads
    /\ UNCHANGED <<storeVars, chatVars, appVars>>

\* close_webcam, lines 624-629, on the main thread: the flag, then join(1.0);
\* called from the webcam window or as the first step of on_closing
close_webcam_join ==
    /\ gui.pc = "mainloop" /\ gui.closing \in {0, 1} /\ gui.webcam_running
    /\ gui' = [gui EXCEPT !.webcam_running = FALSE, !.pc = "close_webcam"]
    /\ threads' = Cancel(threads, "show_webcam_feed")
    /\ UNCHANGED <<storeVars, chatVars, appVars>>

\* close_webcam, lines 631-641: join has returned, the thread ended or not
close_webcam_release ==
    /\ gui.pc = "close_webcam"
    /\ gui' = [gui EXCEPT !.webcam = 0,
                          !.webcam_window = FALSE, !.pc = "mainloop",
                          !.closing = IF gui.closing = 1 THEN 2 ELSE gui.closing]
    /\ UNCHANGED <<threads, storeVars, chatVars, appVars>>

\* close_webcam called by capture thread t from its except clause, lines
\* 540-542: joining itself raises RuntimeError and the rest of close_webcam
\* is not run; joining another thread waits at most a second
close_webcam_in_thread(t) ==
    IF ~gui.webcam_running
    THEN /\ threads' = [threads EXCEPT ![t].pc = "done"]
         /\ UNCHANGED gui
    ELSE /\ gui' = [gui EXCEPT !.webcam_running = FALSE]
         /\ threads' = [Cancel(threads, "show_webcam_feed") EXCEPT
                           ![t].pc = IF gui.webcam_thread = t THEN "failed" ELSE "join"]

\* show_webcam_feed, lines 519-542, one loop position of thread t; the
\* conversion and display of a frame may raise
show_webcam_feed(t) ==
    /\ gui.pc # "closed"
    /\ t \in 1..Len(threads) /\ threads[t].target = "show_webcam_feed"
    /\ \/ /\ threads[t].pc = "while"
          /\ threads' = [threads EXCEPT ![t].pc =
                            IF gui.webcam_running THEN "read" ELSE "done"]
          /\ UNCHANGED gui
       \/ /\ threads[t].pc = "read"
          /\ IF gui.webcam = 0
             THEN close_webcam_in_thread(t)
             ELSE /\ \E ret \in (IF gui.webcam > 0 THEN BOOLEAN ELSE {FALSE}) :
                       threads' = [threads EXCEPT ![t].pc = "show", ![t].ret = ret]
                  /\ UNCHANGED gui
       \/ /\ threads[t].pc = "show"
          /\ \E raised \in (IF ~threads[t].ret THEN {FALSE}
                            ELSE IF ~gui.webcam_window THEN {TRUE} ELSE BOOLEAN) :
               IF raised
               THEN close_webcam_in_thread(t)
               ELSE /\ threads' = [threads EXCEPT ![t].pc = "while", ![t].ret = FALSE]
                    /\ UNCHANGED gui
       \/ /\ threads[t].pc = "join"
          /\ gui' = [gui EXCEPT !.webcam = 0, !.webcam_window = FALSE]
          /\ threads' = [threads EXCEPT ![t].pc = "done"]
    /\ UNCHANGED <<storeVars, chatVars, appVars>>

\* screenshare_functionality, lines 643-700: no thread, one capture;
\* capture_screen reports its own errors
screenshare_functionality ==
    /\ UserMay /\ ~gui.screenshare_running
    /\ gui' = [gui EXCEPT !.sct = 1, !.screenshare_window = TRUE,
                          !.screenshare_running = TRUE]
    /\ UNCHANGED <<threads, storeVars, chatVars, appVars>>

\* close_screenshare, lines 819-834; called from the capture window or as
\* the second step of on_closing
close_screenshare ==
    /\ gui.pc = "mainloop"
    /\ \/ gui.closing = 2
       \/ gui.closing = 0 /\ gui.screenshare_running
    /\ gui' = [gui EXCEPT
                 !.screenshare_running = FALSE,
                 !.sct = IF gui.screenshare_running THEN 0 ELSE gui.sct,
                 !.screenshare_window =
                     IF gui.screenshare_running THEN FALSE ELSE gui.screenshare_window,
                 !.closing = IF gui.closing = 2 THEN 3 ELSE gui.closing]
    /\ UNCHANGED <<threads, storeVars, chatVars, appVars>>

\* microphone_functionality, lines 836-923: a new recognizer, a new
\* microphone, the window with its buttons
microphone_functionality ==
    /\ UserMay /\ ~gui.listening
    /\ gui.microphone # Len(threads) + 1
    /\ gui' = [gui EXCEPT !.microphone = Len(threads) + 1, !.microphone_window = TRUE]
    /\ UNCHANGED <<threads, storeVars, chatVars, appVars>>

\* toggle_listening, lines 925-941, called by thread 0 (main) or by a
\* listener from its except clause; listen_button.config raises once the
\* microphone window is destroyed, after the flag has been assigned
toggle_listening_by(t) ==
    LET end(ths, how) == IF t = 0 THEN ths ELSE [ths EXCEPT ![t].pc = how]
        how == IF gui.microphone_window THEN "done" ELSE "failed"
    IN IF gui.listening
       THEN /\ gui' = [gui EXCEPT !.listening = FALSE]
            /\ threads' = end(Cancel(threads, "listen_for_speech"), how)
       ELSE IF ~gui.microphone_window
       THEN /\ gui' = [gui EXCEPT !.listening = TRUE]
            /\ threads' = end(threads, "failed")
       ELSE /\ Len(threads) < MaxStarts
            /\ gui' = [gui EXCEPT !.listening = TRUE,
                                  !.listening_thread = Len(threads) + 1]
            /\ threads' = Append(end(threads, "done"),
                                 NewThread("listen_for_speech", "enter"))

\* the Start/Stop Listening button of the microphone window
toggle_listening ==
    /\ UserMay /\ gui.microphone_window
    /\ toggle_listening_by(0)
    /\ UNCHANGED <<storeVars, chatVars, appVars>>

\* listen_for_speech, lines 943-981, one position of thread t.  Entering a
\* microphone while another thread is inside it raises; recognize_google may
\* raise RequestError; both end in toggle_listening().
listen_for_speech(t) ==
    /\ gui.pc # "closed"
    /\ t \in 1..Len(threads) /\ threads[t].target = "listen_for_speech"
    /\ \/ /\ threads[t].pc = "enter"
          /\ IF \E u \in 1..Len(threads) :
                   /\ u # t /\ threads[u].target = "listen_for_speech"
                   /\ threads[u].pc \in {"while", "listen"}
                   /\ threads[u].mic = gui.microphone
             THEN toggle_listening_by(t)
             ELSE \/ /\ threads' = [threads EXCEPT ![t].pc = "while",
                                                   ![t].mic = gui.microphone]
                     /\ UNCHANGED gui
                  \/ toggle_listening_by(t)
       \/ /\ threads[t].pc = "while"
          /\ threads' = [threads EXCEPT ![t].pc =
                            IF gui.listening THEN "listen" ELSE "done"]
          /\ UNCHANGED gui
       \/ /\ threads[t].pc = "listen"
          /\ \/ /\ threads' = [threads EXCEPT ![t].pc = "while"]
                /\ UNCHANGED gui
             \/ toggle_listening_by(t)
    /\ UNCHANGED <<storeVars, chatVars, appVars>>

\* stop_listening, lines 1048-1053: the flag, then join(1.0); called from
\* the microphone window or as the third step of on_closing
stop_listening_join ==
    /\ gui.pc = "mainloop" /\ gui.closing \in {0, 3} /\ gui.listening
    /\ gui' = [gui EXCEPT !.listening = FALSE, !.pc = "stop_listening"]
    /\ threads' = Cancel(threads, "listen_for_speech")
    /\ UNCHANGED <<storeVars, chatVars, appVars>>

\* stop_listening, lines 1055-1060: the window is destroyed, whether or not
\* the listener was running
stop_listening_close ==
    /\ \/ gui.pc = "stop_listening"
       \/ /\ gui.pc = "mainloop" /\ ~gui.listening
          /\ \/ gui.closing = 3
             \/ gui.closing = 0 /\ gui.microphone_window
    /\ gui' = [gui EXCEPT !.microphone_window = FALSE, !.pc = "mainloop",
                          !.closing = IF gui.closing = 3 THEN 4 ELSE gui.closing]
    /\ UNCHANGED <<threads, storeVars, chatVars, appVars>>

\* on_closing, lines 1067-1079: the window manager's close request
on_closing ==
    /\ UserMay
    /\ gui' = [gui EXCEPT !.closing = 1]
    /\ UNCHANGED <<threads, storeVars, chatVars, appVars>>

\* on_closing, line 1070, when the webcam is not running: close_webcam
\* returns at once
on_closing_webcam_idle ==
    /\ gui.pc = "mainloop" /\ gui.closing = 1 /\ ~gui.webcam_running
    /\ gui' = [gui EXCEPT !.closing = 2]
    /\ UNCHANGED <<threads, storeVars, chatVars, appVars>>

\* on_closing, line 1079: root.destroy() ends mainloop and main returns;
\* the capture threads are daemon threads (lines 501, 940) and end with the
\* process
root_destroy ==
    /\ gui.pc = "mainloop" /\ gui.closing = 4
    /\ gui' = [gui EXCEPT !.pc = "closed", !.closing = 0]
    /\ threads' = [t \in 1..Len(threads) |->
                     IF threads[t].pc \in {"done", "failed"} THEN threads[t]
                     ELSE [threads[t] EXCEPT !.pc = "done"]]
    /\ UNCHANGED <<storeVars, chatVars, appVars>>

(***************************************************************************)
(* Specifications                                                          *)
(***************************************************************************)
InitComponents ==
    /\ store = EmptyStore
    /\ pc = [w \in Writers |-> "idle"]
    /\ frame = [w \in Writers |-> NoFrame]
    /\ result = [w \in Writers |-> NoResult]
    /\ appends_ok = [c \in ConvIds |-> 0]
    /\ appended = EmptyStore
    /\ model_name = DefaultModel
    /\ model = DefaultModel
    /\ cm = NoCm
    /\ request = NoRequest
    /\ gui = NoGui
    /\ threads = <<>>

\* the two components used directly, no application around them
InitCommon ==
    /\ InitComponents
    /\ program = "none"
    /\ env = FullEnv
    /\ app = NoApp

\* one writer using the whole StorageManager interface
Init == InitCommon /\ active = {1}

Next ==
    \/ \E w \in active, c \in ConvIds, t \in Turns :
           save_interaction_list(w, c, t.role, t.content)
           /\ UNCHANGED <<appVars, capVars>>
    \/ \E w \in active :
           save_interaction_put(w) /\ UNCHANGED <<appVars, capVars>>
    \/ \E w \in active, c \in ConvIds :
           list_interactions_call(w, c) /\ UNCHANGED <<appVars, capVars>>
    \/ \E w \in active, c \in ConvIds, n \in SeqNos :
           get_interaction_exists(w, c, n) /\ UNCHANGED <<appVars, capVars>>
    \/ \E w \in active :
           get_interaction_download(w) /\ UNCHANGED <<appVars, capVars>>
    \/ \E w \in active, c \in ConvIds :
           clear_storage_list(w, c) /\ UNCHANGED <<appVars, capVars>>
    \/ \E w \in active :
           clear_storage_delete(w) /\ UNCHANGED <<appVars, capVars>>
    \/ \E w \in active :
           clear_storage_return(w) /\ UNCHANGED <<appVars, capVars>>

Spec == Init /\ [][Next]_vars

\* two writers appending, no locking
InitRace == InitCommon /\ active = {1, 2}

NextRace ==
    \/ \E w \in active, c \in ConvIds, t \in Turns :
           save_interaction_list(w, c, t.role, t.content)
           /\ UNCHANGED <<appVars, capVars>>
    \/ \E w \in active :
           save_interaction_put(w) /\ UNCHANGED <<appVars, capVars>>

SpecRace == InitRace /\ [][NextRace]_vars

\* writer 1 appends to and clears one conversation while writer 2 reads it
NextReadClear ==
    \/ \E t \in Turns :
           save_interaction_list(1, conversation_1, t.role, t.content)
           /\ UNCHANGED <<appVars, capVars>>
    \/ save_interaction_put(1) /\ UNCHANGED <<appVars, capVars>>
    \/ clear_storage_list(1, conversation_1) /\ UNCHANGED <<appVars, capVars>>
    \/ clear_storage_delete(1) /\ UNCHANGED <<appVars, capVars>>
    \/ clear_storage_return(1) /\ UNCHANGED <<appVars, capVars>>
    \/ \E n \in SeqNos :
           get_interaction_exists(2, conversation_1, n)
           /\ UNCHANGED <<appVars, capVars>>
    \/ get_interaction_download(2) /\ UNCHANGED <<appVars, capVars>>

SpecReadClear == InitRace /\ [][NextReadClear]_vars

\* the Chat Session alone
NextChat ==
    \/ \E m \in ModelIds :
           change_model(m) /\ UNCHANGED <<appVars, capVars>>
    \/ \E p \in Prompts :
           send_prompt(p) /\ UNCHANGED <<appVars, capVars>>
    \/ \E p \in Prompts, i \in Images :
           send_prompt_with_image(p, i) /\ UNCHANGED <<appVars, capVars>>

SpecChat == Init /\ [][NextChat]_vars

\* the applications over one bucket, one after another
InitApp ==
    /\ InitComponents
    /\ active = {1}
    /\ program \in Programs
    /\ env \in Envs
    /\ app = NoApp

NextApp ==
    \/ ui_init /\ UNCHANGED capVars
    \/ \E u \in UserInputs : send_to_gemini(u.text, u.image) /\ UNCHANGED capVars
    \/ clear_conversation /\ UNCHANGED capVars
    \/ new_conversation /\ UNCHANGED capVars
    \/ exit_application /\ UNCHANGED capVars
    \/ cli_start /\ UNCHANGED capVars
    \/ \E u \in {<<"h">>, <<"exit">>} : cli_loop(u) /\ UNCHANGED capVars
    \/ script_main /\ UNCHANGED capVars
    \/ \E p \in Programs : launch(p) /\ UNCHANGED capVars

SpecApp == InitApp /\ [][NextApp]_vars

\* the window application running, its capture devices in use
InitCapture ==
    /\ InitComponents
    /\ active = {1}
    /\ program = "ui"
    /\ env = FullEnv
    /\ app = [NoApp EXCEPT !.phase = "running"]

NextCapture ==
    \/ webcam_functionality
    \/ close_webcam_join
    \/ close_webcam_release
    \/ \E t \in 1..MaxStarts : show_webcam_feed(t)
    \/ screenshare_functionality
    \/ close_screenshare
    \/ microphone_functionality
    \/ toggle_listening
    \/ \E t \in 1..MaxStarts : listen_for_speech(t)
    \/ stop_listening_join
    \/ stop_listening_close
    \/ on_closing
    \/ on_closing_webcam_idle
    \/ root_destroy

\* a started thread keeps running, join(1.0) returns and on_closing runs to
\* its end
SpecCapture ==
    /\ InitCapture /\ [][NextCapture]_vars
    /\ \A t \in 1..MaxStarts :
          WF_vars(show_webcam_feed(t)) /\ WF_vars(listen_for_speech(t))
    /\ WF_vars(close_webcam_release) /\ WF_vars(stop_listening_close)
    /\ WF_vars(on_closing_webcam_idle) /\ WF_vars(close_screenshare)
    /\ WF_vars(root_destroy)

(***************************************************************************)
(* Properties of the Session Store, one writer (Spec)                      *)
(***************************************************************************)
Idle(w) == w \in active /\ pc[w] = "idle"

\* C1: a save_interaction that returned normally leaves list_interactions of
\* its conversation exactly one longer than it was when the call listed it.
C1_AppendGrowsListByOne ==
    \A w \in Writers :
        (Idle(w) /\ result[w].op = "save" /\ result[w].kind = "void")
        => Len(list_interactions(store, result[w].cid)) = result[w].prelen + 1

\* C2: right after a save_interaction that was assigned sequence number n,
\* the object at n decodes to the saved {role, content}; and whenever
\* get_interaction returns a Turn, it is the one last appended at that number.
C2_RoundTrip ==
    \A w \in Writers :
        Idle(w) =>
          /\ (result[w].op = "save" /\ result[w].kind = "void")
             => LET name == blob_name(result[w].cid, result[w].n)
                IN blob_exists(store, name) /\ json_loads(store[name]) = result[w].turn
          /\ (result[w].op = "get" /\ result[w].kind = "dict")
             => LET name == blob_name(result[w].cid, result[w].n)
                IN name \in DOMAIN appended /\ result[w].dict = appended[name]

\* a get_interaction returned a Turn whose content holds a quote and a backslash
C2_Witness ==
    \E w \in Writers :
        /\ Idle(w) /\ result[w].op = "get" /\ result[w].kind = "dict"
        /\ result[w].dict = [role |-> <<"gemini">>, content |-> <<"\"", "\\", "h">>]
        /\ result[w].n = 2

\* C3: between calls, the keys of every conversation are exactly
\* C/1.json .. C/k.json for some k >= 0.
C3_KeysGapFree ==
    (\A w \in active : pc[w] = "idle")
    => \A c \in ConvIds :
          \E k \in 0..MaxAppends :
              OwnKeys(store, c) = {blob_name(c, i) : i \in 1..k}

\* C5: after clear_storage returned a count >= 0, list_interactions of the
\* conversation is empty.
C5_ClearThenListEmpty ==
    \A w \in Writers :
        (Idle(w) /\ result[w].op = "clear" /\ result[w].int >= 0)
        => list_interactions(store, result[w].cid) = <<>>

\* a clear_storage that found two Turns returned and the conversation is empty
C5_Witness ==
    \E w \in Writers :
        /\ Idle(w) /\ result[w].op = "clear" /\ result[w].int >= 0
        /\ result[w].prelen = 2
        /\ list_interactions(store, result[w].cid) = <<>>

\* C6: a clear_storage that does not fail returns the number of keys that
\* were under the prefix when it was called (0 for an empty conversation); a
\* clear_storage started right after a successful one of the same conversation
\* finds nothing, and a clear that found nothing never changes the store.
C6_ClearReturnsCount ==
    /\ [](\A w \in Writers :
            (Idle(w) /\ result[w].op = "clear" /\ result[w].int >= 0)
            => result[w].int = result[w].prelen)
    /\ [][\A w \in Writers :
            (Idle(w) /\ result[w].op = "clear" /\ result[w].int >= 0
               /\ pc'[w] = "clear_delete" /\ frame'[w].cid = result[w].cid)
            => (frame'[w].blobs = <<>> /\ frame'[w].prelen = 0 /\ store' = store)]_vars
    /\ [][\A w \in Writers :
            (w \in active /\ pc[w] = "clear_delete" /\ frame[w].prelen = 0)
            => (store' = store /\ result'[w].int = 0)]_vars

\* a clear_storage returned 2 after two Turns had been stored
C6_Witness ==
    \E w \in Writers :
        /\ Idle(w) /\ result[w].op = "clear" /\ result[w].int = 2
        /\ result[w].prelen = 2 /\ TotalAppends >= 2

\* C7: clear_storage always returns an int, -1 exactly when a backend request
\* of the call failed; so 0 is returned only by a call that found nothing and
\* did not fail.
C7_ClearSentinel ==
    \A w \in Writers :
        (Idle(w) /\ result[w].op = "clear")
        => /\ result[w].kind = "int"
           /\ result[w].fault => result[w].int = -1
           /\ result[w].int < 0 => result[w].fault
           /\ result[w].int = 0 => (~result[w].fault /\ result[w].prelen = 0)

\* a clear_storage returned -1 after deleting part of the conversation
C7_Witness ==
    \E w \in Writers :
        /\ Idle(w) /\ result[w].op = "clear" /\ result[w].int = -1 /\ result[w].fault
        /\ Len(list_interactions(store, result[w].cid)) > 0
        /\ Len(list_interactions(store, result[w].cid)) < result[w].prelen

\* C8: get_interaction of a number at which no object exists returns None
\* (unless the backend request itself failed), and no step of get_interaction
\* changes the store.
C8_GetAbsent ==
    /\ [](\A w \in Writers :
            (Idle(w) /\ result[w].op = "get" /\ ~result[w].fault
               /\ ~blob_exists(store, blob_name(result[w].cid, result[w].n)))
            => result[w].kind = "None")
    /\ [][\A w \in Writers :
            (w \in active /\ (pc[w] = "get_download" \/ pc'[w] = "get_download"
                               \/ (pc[w] = "idle" /\ result'[w].op = "get")))
            => store' = store]_vars

\* a get_interaction returned None for a number of a conversation that has
\* been appended to and cleared
C8_Witness ==
    \E w \in Writers :
        /\ Idle(w) /\ result[w].op = "get" /\ result[w].kind = "None"
        /\ result[w].n = 1 /\ appends_ok[result[w].cid] > 0
        /\ KeysUnder(store, result[w].cid) = {}

(***************************************************************************)
(* Two writers appending (SpecRace)                                        *)
(***************************************************************************)
\* C4: a writer whose sequence number was computed from a list that is stale
\* by the time of its upload (the key exists already) completes its append
\* normally on that same key: the object is replaced by its Turn, no key is
\* added, and the conversation then holds fewer Turns than appends completed.
\* No conversation ever holds more Turns than appends completed.
C4_StaleNumberOverwrites ==
    /\ [](\A c \in ConvIds : Cardinality(OwnKeys(store, c)) <= appends_ok[c])
    /\ [][\A w \in Writers :
            (w \in active /\ pc[w] = "save_put" /\ pc'[w] = "idle" /\ ~result'[w].fault
               /\ blob_exists(store, blob_name(frame[w].cid, frame[w].n)))
            => /\ result'[w].kind = "void"
               /\ DOMAIN store' = DOMAIN store
               /\ store'[blob_name(frame[w].cid, frame[w].n)] = json_dumps(frame[w].turn)
               /\ Cardinality(OwnKeys(store', frame[w].cid)) < appends_ok'[frame[w].cid]]_vars

\* both writers listed the empty conversation before either wrote, both
\* appends completed on sequence number 1, one Turn is stored
C4_Witness ==
    /\ Idle(1) /\ Idle(2)
    /\ result[1].op = "save" /\ result[1].kind = "void"
    /\ result[2].op = "save" /\ result[2].kind = "void"
    /\ result[1].cid = result[2].cid /\ result[1].n = 1 /\ result[2].n = 1
    /\ result[1].prelen = 0 /\ result[2].prelen = 0
    /\ result[1].turn # result[2].turn
    /\ appends_ok[result[1].cid] = 2
    /\ Len(list_interactions(store, result[1].cid)) = 1

(***************************************************************************)
(* Chat Session (SpecChat)                                                 *)
(***************************************************************************)
\* C9: after a change_model that returned False, model_name and model are
\* what they were before the call, and they name the same model.
C9_FailedConfigureKeepsBinding ==
    (cm.called /\ ~cm.ret)
    => (model_name = cm.prev_name /\ model = cm.prev_model /\ model_name = model)

\* C10: after a change_model that returned False, the handle is the one bound
\* before the call, and every request submitted since went to that model.
C10_SendUsesPriorModel ==
    (cm.called /\ ~cm.ret)
    => /\ model = cm.prev_model
       /\ request.since_cm => request.model = cm.prev_model

\* a request was submitted after change_model rejected an invalid identifier,
\* while a model other than the initial one was bound
C10_Witness ==
    /\ cm.called /\ ~cm.ret /\ cm.arg \in InvalidModels
    /\ request.since_cm /\ request.op = "send_prompt_with_image"
    /\ request.model = "gemini-1.0-pro-001"
    /\ model_name # model

\* C11: no send_prompt or send_prompt_with_image step changes model_name or
\* model; a step that changes either is a change_model call that started from
\* the binding before the step; and every exchange starts on an empty chat.
C11_OnlyConfigureRebinds ==
    /\ [][((\E p \in Prompts : send_prompt(p))
            \/ (\E p \in Prompts, i \in Images : send_prompt_with_image(p, i)))
          => (model' = model /\ model_name' = model_name)]_vars
    /\ [][(model' # model \/ model_name' # model_name)
          => (cm'.called /\ cm'.arg = model_name' /\ cm'.prev_model = model
              /\ cm'.prev_name = model_name /\ request'.parts = request.parts
              /\ request'.sent = request.sent)]_vars
    /\ [](request.op # "none" => request.history = <<>>)

\* a failed send_prompt after a successful change_model, the binding still the
\* one change_model made
C11_Witness ==
    /\ request.op = "send_prompt" /\ request.raised /\ request.since_cm
    /\ cm.ret /\ model = cm.arg /\ model_name = cm.arg /\ model # DefaultModel

\* C12: every send_prompt or send_prompt_with_image call makes one
\* send_message call; when the backend rejects it the call raises and returns
\* no text.
C12_OneRequestErrorPropagates ==
    request.op # "none"
    => /\ request.sent = 1
       /\ request.failed => (request.raised /\ request.text = <<>>)
       /\ request.raised => request.failed

\* a send_prompt_with_image whose request was rejected
C12_Witness ==
    /\ request.op = "send_prompt_with_image" /\ request.failed /\ request.raised
    /\ Len(request.parts) = 2 /\ request.parts[2].data = <<"jpeg">>

\* C13: a save_interaction call in which a backend request failed ends in an
\* exception in the very step of the failure, and that step writes nothing;
\* when the failing request is the list request (the call ends straight from
\* idle) the store after the call is the store before it.
C13_AppendFailurePropagates ==
    /\ [](\A w \in active :
            (result[w].op = "save" /\ result[w].fault) => result[w].kind = "raise")
    /\ [][\A w \in active :
            (result'[w].op = "save" /\ result'[w].fault /\ pc[w] # "idle" /\ pc'[w] = "idle")
            => (pc[w] = "save_put" /\ store' = store /\ appended' = appended
                /\ appends_ok' = appends_ok)]_vars
    /\ [][\A w \in active :
            (pc[w] = "idle" /\ pc'[w] = "idle" /\ result'[w] # result[w]
             /\ result'[w].op = "save")
            => (result'[w].fault /\ result'[w].kind = "raise" /\ store' = store
                /\ appended' = appended /\ appends_ok' = appends_ok)]_vars

\* a save_interaction whose list request failed while the conversation held an
\* object
C13_Witness ==
    /\ result[1].op = "save" /\ result[1].fault /\ result[1].kind = "raise"
    /\ result[1].n = 0
    /\ KeysUnder(store, result[1].cid) # {}

\* C14: no step changes the payload stored at a key that exists before and
\* after it, and a successful upload of save_interaction writes a key that did
\* not exist.
C14_TurnsImmutable ==
    /\ [][\A k \in DOMAIN store \cap DOMAIN store' : store'[k] = store[k]]_vars
    /\ [][(appends_ok' # appends_ok) => (DOMAIN store' # DOMAIN store)]_vars

(***************************************************************************)
(* Properties of the applications (SpecApp)                                *)
(***************************************************************************)
\* the role of the Turn stored under name k
StoredRole(k) == json_loads(store[k]).role

\* C15 as stated: every stored Turn has role "user" or "assistant".
C15_RolesUserAssistant ==
    \A k \in DOMAIN store : StoredRole(k) \in {<<"user">>, <<"assistant">>}

\* C15, amended: every Turn the applications store, and every Turn they
\* have passed to an upload that is still stored, has role "user" or "gemini".
C15_RolesUserGemini ==
    /\ \A k \in DOMAIN store : StoredRole(k) \in {<<"user">>, <<"gemini">>}
    /\ \A k \in DOMAIN appended : appended[k].role \in {<<"user">>, <<"gemini">>}

\* a send_to_gemini that completed, and a stored Turn with role "gemini"
C15_Witness ==
    /\ app.op = "send_to_gemini" /\ app.status = "ok"
    /\ \E k \in DOMAIN store : StoredRole(k) = <<"gemini">>
    /\ \E k \in DOMAIN store : StoredRole(k) = <<"user">>

\* C16: a send path whose model call failed leaves the store as it was; one
\* that completed added two objects with consecutive numbers n and n + 1, the
\* first a user Turn and the second the response, and changed no other object.
C16_ExchangeAppendsPair ==
    [][app'.asked =>
         /\ (app'.status = "model_error") => (store' = store)
         /\ (app'.status = "ok") =>
               \E n \in 1..(TotalAppends + 1) :
                  LET k1 == blob_name(conversation_1, n)
                      k2 == blob_name(conversation_1, n + 1)
                  IN /\ k1 \notin DOMAIN store /\ k2 \notin DOMAIN store
                     /\ DOMAIN store' = DOMAIN store \cup {k1, k2}
                     /\ \A k \in DOMAIN store : store'[k] = store[k]
                     /\ json_loads(store'[k1]).role = <<"user">>
                     /\ json_loads(store'[k2]) =
                            [role |-> <<"gemini">>, content |-> request'.text]]_vars

\* the stored Turns as text, one line each
RECURSIVE HistoryText(_)
HistoryText(turns) ==
    IF turns = <<>> THEN <<>>
    ELSE history_line(Head(turns)) \o HistoryText(Tail(turns))

\* C17: the text of every request an application submits is the stored
\* history, every stored Turn by ascending number, followed by the new
\* prompt, and the request is sent once.
C17_RequestCarriesHistory ==
    [][app'.asked =>
         LET h == HistoryText(StoredTurns(store, conversation_1))
         IN /\ request'.sent = 1
            /\ \E p \in Prompts \cup {initial_prompt} :
                 request'.parts[1] \in {full_prompt(h, p), h \o p}]_vars

\* C18: no application ends through an exception of a component call.
C18_ErrorsNeverTerminate == app.phase # "crashed"

\* C19: with a required value missing from the environment no operation of a
\* component is ever called.
C19_MissingConfigIsFatal ==
    (~env.BUCKET_NAME \/ ~env.PROJECT_ID \/ ~env.LOCATION) => ~app.invoked

(***************************************************************************)
(* Properties of the capture threads (SpecCapture)                         *)
(***************************************************************************)
\* C20: a capture thread whose flag was set to False while it was alive
\* eventually leaves its loop and ends.
C20_CancelledThreadEnds ==
    \A t \in 1..MaxStarts :
        (t <= Len(threads) /\ threads[t].cancelled)
            ~> (t <= Len(threads) /\ ~Alive(t))

(***************************************************************************)
(* Isolation of conversations and recovery after a failed clear (Spec)     *)
(***************************************************************************)
\* C21: an upload of save_interaction or a delete of clear_storage made for
\* one conversation leaves list_interactions and every stored payload of
\* each other conversation as they were, and list_interactions of a
\* conversation names only objects of the form {conversation_id}/{n}.json.
C21_ConversationsIsolated ==
    /\ [][\A w \in active : \A D \in ConvIds :
            (pc[w] \in {"save_put", "clear_delete"} /\ frame[w].cid # D)
            => /\ list_interactions(store', D) = list_interactions(store, D)
               /\ \A k \in KeysUnder(store, D) : store'[k] = store[k]]_vars
    /\ [](\A c \in ConvIds : KeysUnder(store, c) = OwnKeys(store, c))

\* C22: when clear_storage has returned -1 after a delete failed, the next
\* save_interaction on that conversation computes the name of an object that
\* does not exist, and its upload makes list_interactions one longer.
C22_AppendAfterFailedClear ==
    /\ [][\A w \in active :
            (/\ pc[w] = "idle" /\ pc'[w] = "save_put"
             /\ result[w].op = "clear" /\ result[w].int = -1
             /\ result[w].cid = frame'[w].cid)
            => ~blob_exists(store, blob_name(frame'[w].cid, frame'[w].n))]_vars
    /\ [][\A w \in active :
            (pc[w] = "save_put" /\ appends_ok' # appends_ok)
            => Len(list_interactions(store', frame[w].cid))
                 = Len(list_interactions(store, frame[w].cid)) + 1]_vars

(***************************************************************************)
(* A reader beside a clear (SpecReadClear)                                 *)
(***************************************************************************)
\* C23: get_interaction ends in an exception only when a backend request of
\* its own failed; an object deleted between blob.exists() and the download
\* makes it return None.
C23_GetAbsentUnderClear ==
    \A w \in active :
        (result[w].op = "get" /\ result[w].kind = "raise") => result[w].fault

(***************************************************************************)
(* The stored conversation as prompt/response pairs (SpecApp)              *)
(***************************************************************************)
\* C24: the Turns stored for the conversation are pairs: their number is
\* even, every object with an odd number n is a user Turn and n + 1 is stored
\* and holds a gemini Turn, and every object with an even number follows a
\* stored user Turn.
C24_StoredPairsComplete ==
    LET c == conversation_1
        Stored(n) == blob_exists(store, blob_name(c, n))
        Role(n) == json_loads(store[blob_name(c, n)]).role
    IN /\ Cardinality(OwnKeys(store, c)) % 2 = 0
       /\ \A n \in 1..(TotalAppends + 1) :
            Stored(n) =>
               IF n % 2 = 1
               THEN Role(n) = <<"user">> /\ Stored(n + 1) /\ Role(n + 1) = <<"gemini">>
               ELSE Role(n) = <<"gemini">> /\ Stored(n - 1)

(***************************************************************************)
(* Properties of the capture devices (SpecCapture)                         *)
(***************************************************************************)
\* the live threads of a target
Running(target) ==
    {t \in 1..Len(threads) : Alive(t) /\ threads[t].target = target}

\* C25: at most one thread runs show_webcam_feed at any time, whatever the
\* sequence of opens and closes of the webcam, a close whose join timed out
\* followed by a re-open included.
C25_OneWebcamThread == Cardinality(Running("show_webcam_feed")) <= 1

\* C26: when the webcam loop raises while webcam_running is true, the
\* close_webcam its except clause calls runs to its end: by the time the
\* thread ends webcam_running is false, the device is released and None and
\* the webcam window is destroyed.
C26_ThreadCleanupCompletes ==
    [][\A t \in 1..Len(threads) :
         (/\ threads[t].target = "show_webcam_feed"
          /\ \/ threads[t].pc \in {"read", "show"} /\ gui.webcam_running
             \/ threads[t].pc = "join"
          /\ threads'[t].pc \in {"done", "failed"})
         => (~gui'.webcam_running /\ gui'.webcam = 0 /\ ~gui'.webcam_window)]_vars

\* C27: when a listener ends through its error handler, listening is false
\* afterwards and no thread was started; and at most one listener is alive
\* at any time.
C27_ListenerErrorStops ==
    /\ [][\A t \in 1..Len(threads) :
            (/\ threads[t].target = "listen_for_speech"
             /\ threads[t].pc \in {"enter", "listen"}
             /\ threads'[t].pc \in {"done", "failed"}
             /\ gui'.pc # "closed")
            => (~gui'.listening /\ Len(threads') = Len(threads))]_vars
    /\ [](Cardinality(Running("listen_for_speech")) <= 1)

\* C28: once on_closing has run to root.destroy(), the three flags are
\* false, neither the webcam nor the screen capture holds an open handle and
\* their windows are destroyed.
C28_ClosedReleasesAll ==
    gui.pc = "closed" =>
        /\ ~gui.webcam_running /\ ~gui.screenshare_running /\ ~gui.listening
        /\ gui.webcam <= 0 /\ gui.sct <= 0
        /\ ~gui.webcam_window /\ ~gui.screenshare_window

====
